---- MODULE Spec2Model ----
(***************************************************************************)
(* Model of parserHHRU.py: the retry_request decorator (bounded retries    *)
(* with exponential backoff) and the paginated walk fetch_all built on     *)
(* make_request / fetch_hh_vac.                                            *)
(*                                                                         *)
(* Specifications:                                                         *)
(*   SpecRetry   one call of retry_request(...)(func) for a configuration  *)
(*               and a wrapped callable drawn from bounded sets;           *)
(*   Spec        fetch_all, whose page fetches go through make_request,    *)
(*               i.e. the wrapper configured at line 100 (FairSpec adds    *)
(*               that the program keeps running);                          *)
(*   SpecFilter  one call of filter_by_salary on drawn records.            *)
(***************************************************************************)
EXTENDS Integers, Sequences, FiniteSets

VARIABLES
    \* configuration captured by the decorator's closure (lines 54-59)
    max_retries, initial_delay, backoff_factor, retryable_status_codes,
    \* locals of one wrapper call (lines 63-64) and where it stands
    wpc, retries, delay, result,
    \* observations of one wrapper call: invocations of func, time.sleep arguments
    calls, sleeps,
    \* a direct call's wrapped callable: what its next invocation will do, and
    \* what its invocations so far did
    func_next, outcomes,
    \* fetch_all (lines 160-193)
    pc, page, all_vacancies, min_salary, vacancies,
    \* observations of the walk: the page indices requested, in order, and the
    \* 'pages' fields the decoded bodies carried
    fetched, pages_seen,
    \* a direct call of filter_by_salary: the list it returns (lines 152-158)
    filtered

cfgvars  == <<max_retries, initial_delay, backoff_factor, retryable_status_codes>>
wrapvars == <<wpc, retries, delay, result, calls, sleeps, func_next, outcomes>>
walkvars == <<pc, page, all_vacancies, min_salary, vacancies, fetched, pages_seen,
              filtered>>
vars     == <<cfgvars, wrapvars, walkvars>>

----------------------------------------------------------------------------
(* Bounds of the model *)

\* largest max_retries a drawn configuration uses
MaxRetries == 3

----------------------------------------------------------------------------
(* Delays are Python floats; the model keeps them as exact fractions         *)
(* num/den with den > 0 (every value used is a small dyadic rational, which   *)
(* binary floating point represents and multiplies exactly).                  *)

Rat(n, d) == [num |-> n, den |-> d]

RatMul(a, b) == Rat(a.num * b.num, a.den * b.den)

RatLess(a, b) == a.num * b.den < b.num * a.den

RatEq(a, b) == a.num * b.den = b.num * a.den

----------------------------------------------------------------------------
(* Values *)

HTTP_OK == 200

DefaultRetryable == {429, 500, 502, 503, 504}

None == [kind |-> "None"]

\* status codes a response of the wrapped callable may carry
Statuses == {HTTP_OK, 404, 503}

\* what one invocation of an arbitrary wrapped callable can do
Outcomes ==
    [kind : {"response"}, status : Statuses]
        \cup {[kind |-> "network_fault"],    \* raises requests.exceptions.RequestException
              [kind |-> "other_fault"],      \* raises an exception of another class
              [kind |-> "non_response"]}     \* returns an object without status_code

\* what one invocation of requests.get can do
HttpOutcomes == {o \in Outcomes : o.kind # "non_response"}

\* the value the callable returns on its n-th invocation of this wrapper call
Returned(o, n) ==
    IF o.kind = "response"
    THEN [kind |-> "response", status |-> o.status, call |-> n]
    ELSE [kind |-> "object", call |-> n]

----------------------------------------------------------------------------
(* retry_request.wrapper, lines 62-96 *)

\* line 66: while retries <= max_retries
LoopCond == retries <= max_retries

\* variant of Caught: the except clause is missing
Caught_nothing(o) == FALSE

\* lines 81-83: the exceptions the except clause names (RequestException and
\* its subclasses Timeout and ConnectionError)
Caught(o) == o.kind = "network_fault"

\* variant of IsRetryableStatus: every non-200 status is retried
IsRetryableStatus_anyError(o) == o.kind = "response" /\ o.status # HTTP_OK

\* line 74: elif result.status_code in retryable_status_codes (after line 72)
IsRetryableStatus(o) ==
    o.kind = "response" /\ o.status # HTTP_OK /\ o.status \in retryable_status_codes

\* the outcomes that reach the backoff step at line 86
IsRetryable(o) == Caught(o) \/ IsRetryableStatus(o)

\* lines 72-73, 76-79: the return values handed to the caller at once
IsReturned(o) == o.kind \in {"response", "non_response"} /\ ~IsRetryable(o)

\* lines 68, 81: an exception of func that no except clause names
Raises(o) == o.kind \in {"network_fault", "other_fault"} /\ ~Caught(o)

\* variant of AtMaxRetries: exhaustion is signalled one attempt early
AtMaxRetries_early == retries + 1 = max_retries

\* line 87: if retries == max_retries
AtMaxRetries == retries = max_retries

\* variant of NextDelay: delay += backoff_factor
NextDelay_additive == Rat(delay.num * backoff_factor.den + backoff_factor.num * delay.den,
                          delay.den * backoff_factor.den)

\* variant of NextDelay: the delay is never scaled
NextDelay_constant == delay

\* line 93: delay *= backoff_factor
NextDelay == RatMul(delay, backoff_factor)

\* variants of NextRetries: the counter advances by two, or not at all
NextRetries_double == retries + 2

NextRetries_stuck == retries

\* line 94: retries += 1
NextRetries == retries + 1

\* line 68: result = func(...), where this invocation of func has outcome o
Invoke(o) == calls' = calls + 1

\* variant of WrapperEntry: retries and delay are not set anew
WrapperEntry_stale ==
    /\ wpc' = "loop"
    /\ result' = None
    /\ calls' = 0
    /\ sleeps' = <<>>
    /\ UNCHANGED <<retries, delay>>

\* lines 63-64: a call of the wrapper begins
WrapperEntry ==
    /\ wpc' = "loop"
    /\ retries' = 0
    /\ delay' = initial_delay
    /\ result' = None
    /\ calls' = 0
    /\ sleeps' = <<>>

\* no call of the wrapper is in progress: its locals do not exist
NoFrame ==
    /\ wpc = "idle"
    /\ retries = -1
    /\ delay = Rat(0, 1)
    /\ result = None
    /\ calls = 0
    /\ sleeps = <<>>

\* lines 66-79: an attempt whose result is returned
AttemptReturn(o) ==
    /\ wpc = "loop"
    /\ LoopCond
    /\ IsReturned(o)
    /\ Invoke(o)
    /\ result' = Returned(o, calls + 1)
    /\ wpc' = "returned"
    /\ UNCHANGED <<retries, delay, sleeps>>

\* lines 66-68, 81-83: an attempt raising an exception the except clause does not name
AttemptRaise(o) ==
    /\ wpc = "loop"
    /\ LoopCond
    /\ Raises(o)
    /\ Invoke(o)
    /\ wpc' = "raised"
    /\ UNCHANGED <<retries, delay, result, sleeps>>

\* lines 66-94: a retryable failure followed by the backoff sleep
AttemptRetry(o) ==
    /\ wpc = "loop"
    /\ LoopCond
    /\ IsRetryable(o)
    /\ ~AtMaxRetries
    /\ Invoke(o)
    /\ sleeps' = Append(sleeps, delay)
    /\ delay' = NextDelay
    /\ retries' = NextRetries
    /\ UNCHANGED <<wpc, result>>

\* lines 66-89: a retryable failure on the last attempt
AttemptExhaust(o) ==
    /\ wpc = "loop"
    /\ LoopCond
    /\ IsRetryable(o)
    /\ AtMaxRetries
    /\ Invoke(o)
    /\ result' = None
    /\ wpc' = "returned"
    /\ UNCHANGED <<retries, delay, sleeps>>

\* lines 66, 96: the loop condition fails
LoopExit ==
    /\ wpc = "loop"
    /\ ~LoopCond
    /\ result' = None
    /\ wpc' = "returned"
    /\ UNCHANGED <<retries, delay, calls, sleeps>>

----------------------------------------------------------------------------
(* One direct call of the wrapper retry_request(...)(func), for every       *)
(* drawn configuration and every behaviour of func.  func_next is what the   *)
(* next invocation of func will do; it is drawn anew after each invocation.  *)

RetryCounts == {-1} \cup (0 .. MaxRetries)

\* time.sleep rejects a negative argument: the drawn delays are non-negative
InitialDelays == {Rat(0, 1), Rat(1, 2), Rat(1, 1)}

BackoffFactors == {Rat(1, 2), Rat(1, 1), Rat(3, 2), Rat(2, 1)}

RetryableSets == {DefaultRetryable, {404}}

InitRetry ==
    /\ max_retries \in RetryCounts
    /\ initial_delay \in InitialDelays
    /\ backoff_factor \in BackoffFactors
    /\ retryable_status_codes \in RetryableSets
    /\ NoFrame
    /\ func_next \in Outcomes
    /\ outcomes = <<>>
    /\ pc = "off"
    /\ page = 0
    /\ all_vacancies = <<>>
    /\ min_salary = 0
    /\ filtered = <<>>
    /\ vacancies = None
    /\ fetched = <<>>
    /\ pages_seen = {}

CallWrapper ==
    /\ pc = "off"
    /\ wpc = "idle"
    /\ WrapperEntry
    /\ UNCHANGED <<func_next, outcomes, cfgvars, walkvars>>

CallReturn ==
    /\ pc = "off"
    /\ AttemptReturn(func_next)
    /\ outcomes' = Append(outcomes, func_next)
    /\ func_next' \in Outcomes
    /\ UNCHANGED <<cfgvars, walkvars>>

CallRaise ==
    /\ pc = "off"
    /\ AttemptRaise(func_next)
    /\ outcomes' = Append(outcomes, func_next)
    /\ func_next' \in Outcomes
    /\ UNCHANGED <<cfgvars, walkvars>>

CallRetry ==
    /\ pc = "off"
    /\ AttemptRetry(func_next)
    /\ outcomes' = Append(outcomes, func_next)
    /\ func_next' \in Outcomes
    /\ UNCHANGED <<cfgvars, walkvars>>

CallExhaust ==
    /\ pc = "off"
    /\ AttemptExhaust(func_next)
    /\ outcomes' = Append(outcomes, func_next)
    /\ func_next' \in Outcomes
    /\ UNCHANGED <<cfgvars, walkvars>>

CallLoopExit ==
    /\ pc = "off"
    /\ LoopExit
    /\ UNCHANGED <<func_next, outcomes, cfgvars, walkvars>>

NextRetry ==
    \/ CallWrapper
    \/ CallReturn
    \/ CallRaise
    \/ CallRetry
    \/ CallExhaust
    \/ CallLoopExit

SpecRetry == InitRetry /\ [][NextRetry]_vars

----------------------------------------------------------------------------
(* Values of the walk.  An Optional[int] is <<>> (None) or <<v>>.            *)

\* pages whose 'items' list is drawn freely; later pages carry LateItems
VariedPages == 1

PAGE_CAP == 19

Absent == [kind |-> "absent"]

Salary(from, to) == [kind |-> "mapping", from |-> from, to |-> to]

Vacancy(name, salary) == [kind |-> "mapping", name |-> name, salary |-> salary]

\* raw objects of an 'items' list
RawObjects ==
    { Vacancy("q", Salary(<<2>>, <<>>)),
      Vacancy("t", Salary(<<>>, <<1>>)),
      Vacancy("z", Salary(<<0>>, <<>>)),       \* a salary bound that is 0
      Vacancy("n", Absent),                    \* no 'salary' key, or null
      Vacancy("x", [kind |-> "scalar"]),       \* 'salary' is a non-empty non-mapping value
      [kind |-> "scalar"] }                    \* the raw object is not a mapping

\* the non-empty 'items' lists a page may carry
ItemLists ==
    {<<a>> : a \in RawObjects} \cup {<<a, b>> : a \in RawObjects, b \in RawObjects}

LateItems == <<Vacancy("q", Salary(<<2>>, <<>>))>>

ItemsOf(p) == IF p < VariedPages THEN ItemLists ELSE {LateItems}

\* the 'pages' field of a body: missing, null, or an integer
PagesFields ==
    {Absent, [kind |-> "null"]} \cup [kind : {"int"}, val : {0, 1, 3, 20, 50}]

\* what response.json() may return for the page requested with index p
Bodies(p) ==
    [kind : {"mapping"},
     items : {Absent, [kind |-> "list", val |-> <<>>], [kind |-> "scalar"]}
                 \cup [kind : {"list"}, val : ItemsOf(p)],   \* scalar: a non-zero number
     pages : PagesFields]
        \cup {[kind |-> "scalar"]}             \* a non-zero JSON number

\* the min_salary arguments fetch_all is called with; salaries and thresholds
\* are small numbers standing for amounts such as 250000
MinSalaries == {0, 2}

----------------------------------------------------------------------------
(* VacancyData.api_response, extract_vacancy_data, filter_by_salary *)

\* lines 28-53: the record built from one raw object, or None.  url,
\* salary_currency, salary_gross and retrieved_at are copied or stamped the
\* same way and read by nothing in fetch_all; the record keeps the other three.
api_response(raw) ==
    IF raw.kind # "mapping" THEN None                  \* .get raises, line 51
    ELSE IF raw.salary.kind = "scalar" THEN None       \* salary_info.get raises, line 51
    ELSE [kind |-> "VacancyData",
          title |-> raw.name,
          salary_from |-> IF raw.salary.kind = "mapping" THEN raw.salary.from ELSE <<>>,
          salary_to |-> IF raw.salary.kind = "mapping" THEN raw.salary.to ELSE <<>>]

\* variant of extract_vacancy_data: the first object that cannot be
\* normalized ends the page
RECURSIVE extract_vacancy_data_stops(_)
extract_vacancy_data_stops(raws) ==
    IF raws = <<>> THEN <<>>
    ELSE LET vacancy_data == api_response(Head(raws))
         IN  IF vacancy_data # None
             THEN <<vacancy_data>> \o extract_vacancy_data_stops(Tail(raws))
             ELSE <<>>

\* lines 139-147
RECURSIVE extract_vacancy_data(_)
extract_vacancy_data(raws) ==
    IF raws = <<>> THEN <<>>
    ELSE LET vacancy_data == api_response(Head(raws))
             rest == extract_vacancy_data(Tail(raws))
         IN  IF vacancy_data # None THEN <<vacancy_data>> \o rest ELSE rest

\* variant of Reaches: the bound only has to be there
Reaches_anyBound(x, m) == x # <<>> /\ x[1] # 0

\* lines 154-155: Python truth of "x and x >= min_salary" for an Optional[int]
Reaches(x, m) == x # <<>> /\ x[1] # 0 /\ x[1] >= m

\* lines 151-158
RECURSIVE filter_by_salary(_, _)
filter_by_salary(vs, m) ==
    IF vs = <<>> THEN <<>>
    ELSE LET rest == filter_by_salary(Tail(vs), m)
         IN  IF Reaches(Head(vs).salary_from, m) \/ Reaches(Head(vs).salary_to, m)
             THEN <<Head(vs)>> \o rest
             ELSE rest

----------------------------------------------------------------------------
(* fetch_hh_vac (lines 105-137) and fetch_all (lines 160-193) *)

\* lines 166, 116 and 63-64: the next page is requested through make_request
FetchPage ==
    /\ pc = "fetch"
    /\ WrapperEntry
    /\ fetched' = Append(fetched, page)
    /\ pc' = "request"
    /\ UNCHANGED <<func_next, outcomes, cfgvars, page, all_vacancies, min_salary, filtered,
                   vacancies, pages_seen>>

RequestReturn ==
    /\ pc = "request"
    /\ \E o \in HttpOutcomes : AttemptReturn(o)
    /\ UNCHANGED <<func_next, outcomes, cfgvars, walkvars>>

RequestRaise ==
    /\ pc = "request"
    /\ \E o \in HttpOutcomes : AttemptRaise(o)
    /\ UNCHANGED <<func_next, outcomes, cfgvars, walkvars>>

RequestRetry ==
    /\ pc = "request"
    /\ \E o \in HttpOutcomes : AttemptRetry(o)
    /\ UNCHANGED <<func_next, outcomes, cfgvars, walkvars>>

RequestExhaust ==
    /\ pc = "request"
    /\ \E o \in HttpOutcomes : AttemptExhaust(o)
    /\ UNCHANGED <<func_next, outcomes, cfgvars, walkvars>>

\* the wrapper's call has ended: its locals are gone
FrameDropped ==
    /\ wpc' = "idle"
    /\ retries' = -1
    /\ delay' = Rat(0, 1)
    /\ result' = None
    /\ calls' = 0
    /\ sleeps' = <<>>

\* variant of Rejected: the status of the response is not looked at
Rejected_statusIgnored ==
    \/ wpc = "raised"
    \/ wpc = "returned" /\ result = None

\* lines 118-124: no response, or a response whose status is not 200;
\* lines 135-137: an exception that left make_request
Rejected ==
    \/ wpc = "raised"
    \/ wpc = "returned" /\ result = None
    \/ wpc = "returned" /\ result.kind = "response" /\ result.status # HTTP_OK

ResponseRejected ==
    /\ pc = "request"
    /\ Rejected
    /\ vacancies' = None
    /\ pc' = "body"
    /\ FrameDropped
    /\ UNCHANGED <<func_next, outcomes, cfgvars, page, all_vacancies, min_salary, filtered,
                   fetched, pages_seen>>

\* lines 127, 132-137: response.json() raises
JsonDecodeError ==
    /\ pc = "request"
    /\ wpc = "returned"
    /\ ~Rejected
    /\ vacancies' = None
    /\ pc' = "body"
    /\ FrameDropped
    /\ UNCHANGED <<func_next, outcomes, cfgvars, page, all_vacancies, min_salary, filtered,
                   fetched, pages_seen>>

\* lines 126-127: the decoded body is returned
JsonDecoded ==
    /\ pc = "request"
    /\ wpc = "returned"
    /\ ~Rejected
    /\ \E body \in Bodies(page) :
           /\ vacancies' = body
           /\ pages_seen' = IF body.kind = "mapping"
                            THEN pages_seen \cup {body.pages}
                            ELSE pages_seen
    /\ pc' = "body"
    /\ FrameDropped
    /\ UNCHANGED <<func_next, outcomes, cfgvars, page, all_vacancies, min_salary, filtered, fetched>>

\* line 168: not vacancies or 'items' not in vacancies
NoData == vacancies = None \/ (vacancies.kind = "mapping" /\ vacancies.items = Absent)

\* variant of EmptyItems: an empty list is taken for a page with items
EmptyItems_never(items) == FALSE

\* lines 172-173: not current_vacancies
EmptyItems(items) == items.kind = "list" /\ items.val = <<>>

\* lines 168-178: the body is a mapping whose 'items' is a non-empty list
HasItems ==
    /\ vacancies # None
    /\ vacancies.kind = "mapping"
    /\ vacancies.items # Absent
    /\ vacancies.items.kind = "list"
    /\ ~EmptyItems(vacancies.items)

\* line 185: pages = vacancies.get('pages', 0)
PagesOf(body) == IF body.pages = Absent THEN 0 ELSE body.pages.val

\* variants of PageStop: no hard cap, the cap one page late, the page count
\* compared one page late
PageStop_noCap(p, pages) == p >= pages - 1

PageStop_capOffByOne(p, pages) == p >= pages - 1 \/ p >= PAGE_CAP + 1

PageStop_offByOne(p, pages) == p >= pages \/ p >= PAGE_CAP

\* line 186: page >= pages - 1 or page >= 19
PageStop(p, pages) == p >= pages - 1 \/ p >= PAGE_CAP

\* lines 178-182
Extended ==
    all_vacancies \o
        filter_by_salary(extract_vacancy_data(vacancies.items.val), min_salary)

\* lines 168-170
WalkNoData ==
    /\ pc = "body"
    /\ NoData
    /\ pc' = "done"
    /\ UNCHANGED <<cfgvars, wrapvars, page, all_vacancies, min_salary, filtered, vacancies,
                   fetched, pages_seen>>

\* lines 172-175
WalkEmptyItems ==
    /\ pc = "body"
    /\ ~NoData
    /\ vacancies.kind = "mapping"
    /\ EmptyItems(vacancies.items)
    /\ pc' = "done"
    /\ UNCHANGED <<cfgvars, wrapvars, page, all_vacancies, min_salary, filtered, vacancies,
                   fetched, pages_seen>>

\* lines 178-188: the page is appended and it is the last one
WalkLastPage ==
    /\ pc = "body"
    /\ HasItems
    /\ vacancies.pages.kind # "null"
    /\ PageStop(page, PagesOf(vacancies))
    /\ all_vacancies' = Extended
    /\ pc' = "done"
    /\ UNCHANGED <<cfgvars, wrapvars, page, min_salary, filtered, vacancies, fetched, pages_seen>>

\* lines 178-191: the page is appended and the walk moves on; vacancies is
\* not read again before line 166 assigns it
WalkNextPage ==
    /\ pc = "body"
    /\ HasItems
    /\ vacancies.pages.kind # "null"
    /\ ~PageStop(page, PagesOf(vacancies))
    /\ all_vacancies' = Extended
    /\ page' = page + 1
    /\ vacancies' = None
    /\ pc' = "fetch"
    /\ UNCHANGED <<cfgvars, wrapvars, min_salary, filtered, fetched, pages_seen>>

\* line 168: 'items' not in a number raises TypeError
WalkRaiseBody ==
    /\ pc = "body"
    /\ vacancies # None
    /\ vacancies.kind = "scalar"
    /\ pc' = "raised"
    /\ UNCHANGED <<cfgvars, wrapvars, page, all_vacancies, min_salary, filtered, vacancies,
                   fetched, pages_seen>>

\* line 186: None - 1 raises TypeError, after line 182 has extended the list
WalkRaisePages ==
    /\ pc = "body"
    /\ HasItems
    /\ vacancies.pages.kind = "null"
    /\ all_vacancies' = Extended
    /\ pc' = "raised"
    /\ UNCHANGED <<cfgvars, wrapvars, page, min_salary, filtered, vacancies, fetched, pages_seen>>

\* lines 178 and 141: iterating a number raises TypeError in extract_vacancy_data
WalkRaiseItems ==
    /\ pc = "body"
    /\ ~NoData
    /\ vacancies.kind = "mapping"
    /\ vacancies.items.kind = "scalar"
    /\ pc' = "raised"
    /\ UNCHANGED <<cfgvars, wrapvars, page, all_vacancies, min_salary, filtered, vacancies,
                   fetched, pages_seen>>

\* fetch_all(url, min_salary) is entered: lines 162-163, with make_request
\* as configured at line 100
Init ==
    /\ max_retries = 3
    /\ initial_delay = Rat(1, 1)
    /\ backoff_factor = Rat(2, 1)
    /\ retryable_status_codes = DefaultRetryable
    /\ NoFrame
    /\ func_next = [kind |-> "response", status |-> HTTP_OK]
    /\ outcomes = <<>>
    /\ pc = "fetch"
    /\ page = 0
    /\ all_vacancies = <<>>
    /\ min_salary \in MinSalaries
    /\ filtered = <<>>
    /\ vacancies = None
    /\ fetched = <<>>
    /\ pages_seen = {}

Next ==
    \/ FetchPage
    \/ RequestReturn
    \/ RequestRaise
    \/ RequestRetry
    \/ RequestExhaust
    \/ ResponseRejected
    \/ JsonDecodeError
    \/ JsonDecoded
    \/ WalkNoData
    \/ WalkEmptyItems
    \/ WalkLastPage
    \/ WalkNextPage
    \/ WalkRaiseBody
    \/ WalkRaisePages
    \/ WalkRaiseItems

Spec == Init /\ [][Next]_vars

\* the program is sequential and every step of it ends: requests.get returns
\* or raises within its timeout, time.sleep returns
FairSpec == Spec /\ WF_vars(Next)

----------------------------------------------------------------------------
(* filter_by_salary called on its own (lines 151-158) *)

\* the longest list of records handed to filter_by_salary
MaxRecords == 2

\* an Optional[int] salary bound: None, 0, or an amount
SalaryBounds == {<<>>, <<0>>, <<1>>, <<2>>}

VacancyDatas ==
    [kind : {"VacancyData"}, title : {"v"},
     salary_from : SalaryBounds, salary_to : SalaryBounds]

RECURSIVE RecordLists(_)
RecordLists(n) ==
    IF n = 0 THEN {<<>>}
    ELSE LET shorter == RecordLists(n - 1)
         IN  shorter \cup {Append(l, v) : l \in shorter, v \in VacancyDatas}

\* any integer may be passed as min_salary
Thresholds == {-1, 0, 1, 2}

\* filter_by_salary(vacancies, min_salary) is about to be called
InitFilter ==
    /\ max_retries = 3
    /\ initial_delay = Rat(1, 1)
    /\ backoff_factor = Rat(2, 1)
    /\ retryable_status_codes = DefaultRetryable
    /\ NoFrame
    /\ func_next = [kind |-> "response", status |-> HTTP_OK]
    /\ outcomes = <<>>
    /\ pc = "filter"
    /\ page = 0
    /\ all_vacancies = <<>>
    /\ fetched = <<>>
    /\ pages_seen = {}
    /\ vacancies \in RecordLists(MaxRecords)
    /\ min_salary \in Thresholds
    /\ filtered = <<>>

\* lines 152-158
CallFilter ==
    /\ pc = "filter"
    /\ filtered' = filter_by_salary(vacancies, min_salary)
    /\ pc' = "filtered"
    /\ UNCHANGED <<cfgvars, wrapvars, page, all_vacancies, min_salary, vacancies,
                   fetched, pages_seen>>

NextFilter == CallFilter

SpecFilter == InitFilter /\ [][NextFilter]_vars

----------------------------------------------------------------------------
(* Properties of one wrapper call (checked under SpecRetry) *)

WrapperDone == wpc \in {"returned", "raised"}

\* the behaviour of the wrapped callable revealed so far: the outcomes of its
\* invocations, followed by what its next invocation would do
Beh == Append(outcomes, func_next)

OkOutcome == [kind |-> "response", status |-> HTTP_OK]

\* the callable fails retryably on its first n invocations
FailsFirst(n) ==
    /\ n <= Len(Beh)
    /\ \A i \in 1 .. n : IsRetryable(Beh[i])

\* the callable fails retryably on its first n invocations and then returns 200
FailsThenOk(n) ==
    /\ n + 1 <= Len(Beh)
    /\ \A i \in 1 .. n : IsRetryable(Beh[i])
    /\ Beh[n + 1] = OkOutcome

\* C1: for max_retries >= 0, whatever the outcomes of the attempts, one wrapper
\* call invokes the wrapped callable at most max_retries + 1 times.
C1_AtMostMaxRetriesPlusOne ==
    max_retries >= 0 => calls <= max_retries + 1

C1_Witness ==
    /\ wpc = "returned"
    /\ max_retries = 3
    /\ calls = max_retries + 1
    /\ \E i \in 1 .. Len(outcomes) : outcomes[i].kind = "network_fault"
    /\ \E i \in 1 .. Len(outcomes) : outcomes[i].kind = "response"

\* C2: a callable that fails retryably on its first N invocations and then
\* returns status 200, with N < max_retries, is invoked exactly N + 1 times and
\* the wrapper returns the response of invocation N + 1.
C2_FailsThenSucceeds ==
    WrapperDone =>
        \A n \in 0 .. MaxRetries :
            (n < max_retries /\ FailsThenOk(n)) =>
                /\ wpc = "returned"
                /\ calls = n + 1
                /\ result = Returned(OkOutcome, n + 1)

C2_Witness ==
    /\ wpc = "returned"
    /\ max_retries = 3
    /\ FailsThenOk(2)
    /\ calls = 3
    /\ result = Returned(OkOutcome, 3)

\* C3 as claimed: a callable that fails retryably on its first N invocations and
\* would then succeed, with N >= max_retries (N = max_retries included), gets no
\* result after exactly max_retries + 1 invocations.
C3_Original ==
    (WrapperDone /\ max_retries >= 0) =>
        \A n \in max_retries .. max_retries + 1 :
            FailsThenOk(n) => (wpc = "returned" /\ result = None /\ calls = max_retries + 1)

\* C3 amended: with N > max_retries (the first max_retries + 1 invocations all
\* fail retryably) the wrapper returns None after exactly max_retries + 1
\* invocations; with N = max_retries the invocation numbered max_retries + 1
\* is the successful one and its response is returned.
C3_Exhaustion ==
    (WrapperDone /\ max_retries >= 0) =>
        /\ FailsFirst(max_retries + 1) =>
               (wpc = "returned" /\ result = None /\ calls = max_retries + 1)
        /\ FailsThenOk(max_retries) =>
               /\ wpc = "returned"
               /\ calls = max_retries + 1
               /\ result = Returned(OkOutcome, max_retries + 1)

C3_Witness ==
    /\ wpc = "returned"
    /\ max_retries = 2
    /\ FailsThenOk(max_retries + 1)
    /\ result = None
    /\ calls = 3

\* C4: when the first invocation returns a status that is neither 200 nor in
\* retryable_status_codes, the wrapper returns that response after exactly one
\* invocation and without any backoff sleep.
C4_NonRetryableFirst ==
    (/\ Len(outcomes) >= 1
     /\ outcomes[1].kind = "response"
     /\ outcomes[1].status # HTTP_OK
     /\ outcomes[1].status \notin retryable_status_codes) =>
        /\ wpc = "returned"
        /\ calls = 1
        /\ result = Returned(outcomes[1], 1)
        /\ sleeps = <<>>

C4_Witness ==
    /\ wpc = "returned"
    /\ max_retries = 3
    /\ calls = 1
    /\ result = [kind |-> "response", status |-> 404, call |-> 1]
    /\ 404 \notin retryable_status_codes
    /\ sleeps = <<>>

DefaultDelays ==
    /\ max_retries = 3
    /\ RatEq(initial_delay, Rat(1, 1))
    /\ RatEq(backoff_factor, Rat(2, 1))

AllAttemptsFailed == \A i \in 1 .. Len(outcomes) : IsRetryable(outcomes[i])

\* C5: with max_retries = 3, initial_delay = 1.0, backoff_factor = 2.0 and every
\* attempt failing retryably, a finished wrapper call has made four attempts and
\* slept exactly [1.0, 2.0, 4.0]: no sleep follows the fourth attempt.
C5_DelaySequence ==
    (WrapperDone /\ DefaultDelays /\ AllAttemptsFailed) =>
        /\ calls = 4
        /\ Len(sleeps) = 3
        /\ RatEq(sleeps[1], Rat(1, 1))
        /\ RatEq(sleeps[2], Rat(2, 1))
        /\ RatEq(sleeps[3], Rat(4, 1))

C5_Witness ==
    /\ wpc = "returned"
    /\ DefaultDelays
    /\ AllAttemptsFailed
    /\ calls = 4
    /\ Len(sleeps) = 3

StrictlyIncreasing(s) == \A i \in 1 .. Len(s) - 1 : RatLess(s[i], s[i + 1])

\* C6 as claimed: for every configuration the wrapper accepts, the backoff
\* sleeps of one call are strictly increasing.
C6_Original == StrictlyIncreasing(sleeps)

\* C6 amended: the backoff sleeps of one call are strictly increasing when
\* initial_delay > 0 and backoff_factor > 1; with backoff_factor = 1 they are
\* all equal, with backoff_factor < 1 or initial_delay = 0 they do not grow.
C6_IncreasingDelays ==
    /\ (RatLess(Rat(0, 1), initial_delay) /\ RatLess(Rat(1, 1), backoff_factor))
           => StrictlyIncreasing(sleeps)
    /\ (RatEq(backoff_factor, Rat(1, 1)) \/ RatEq(initial_delay, Rat(0, 1)))
           => \A i \in 1 .. Len(sleeps) : RatEq(sleeps[i], initial_delay)

C6_Witness ==
    /\ Len(sleeps) = 3
    /\ RatEq(initial_delay, Rat(1, 2))
    /\ RatEq(backoff_factor, Rat(3, 2))
    /\ RatLess(sleeps[1], sleeps[2])
    /\ RatLess(sleeps[2], sleeps[3])

\* the three results the wrapper's contract names
ContractResult ==
    \/ result = None
    \/ result.kind = "response" /\ result.status = HTTP_OK
    \/ result.kind = "response" /\ result.status # HTTP_OK
           /\ result.status \notin retryable_status_codes

\* C7 as claimed: whatever each attempt does (returns a response with any
\* status, or raises a fault), the wrapper call ends by returning a 200
\* response, a non-retryable non-200 response or None; no fault propagates.
C7_Original ==
    (WrapperDone /\ \A i \in 1 .. Len(outcomes) : outcomes[i].kind # "non_response") =>
        (wpc = "returned" /\ ContractResult)

\* C7 amended: when each attempt returns a response or raises a network-layer
\* fault (requests.exceptions.RequestException), the wrapper call ends by
\* returning a 200 response, a non-retryable non-200 response or None; a fault
\* of any other class raised by the callable propagates out of the wrapper.
C7_NeverRaisesNetworkFault ==
    WrapperDone =>
        /\ (\A i \in 1 .. Len(outcomes) : outcomes[i].kind \in {"response", "network_fault"})
               => (wpc = "returned" /\ ContractResult)
        /\ (wpc = "raised") <=>
               (outcomes # <<>> /\ outcomes[Len(outcomes)].kind = "other_fault")

C7_Witness ==
    /\ wpc = "returned"
    /\ Len(outcomes) = 3
    /\ outcomes[1].kind = "network_fault"
    /\ outcomes[2].kind = "network_fault"
    /\ outcomes[3].kind = "response"
    /\ result.kind = "response"
    /\ result.status = 404

----------------------------------------------------------------------------
(* Properties of the walk (checked under Spec; termination under FairSpec) *)

WalkEnded == pc \in {"done", "raised"}

\* the pages requested so far are 0, 1, ..., n-1, in that order
FetchedUpTo(n) == Len(fetched) = n /\ \A i \in 1 .. n : fetched[i] = i - 1

\* the walk has ended at line 188, after appending a page with a non-empty
\* 'items' list: every fetch of the walk succeeded with a non-empty list
EndedOnLastPage == pc = "done" /\ HasItems

IntPages(n) == [kind |-> "int", val |-> n]

\* C8: fetch_all always terminates and issues at most 20 page fetches, with
\* indices among 0..19, whatever the fetch outcomes and whatever 'pages'
\* values the bodies report (changing from page to page, larger than 20).
C8_TerminatesWithinCap ==
    /\ [](Len(fetched) <= 20 /\ \A i \in 1 .. Len(fetched) : fetched[i] \in 0 .. 19)
    /\ <>WalkEnded

C8_Witness ==
    /\ pc = "done"
    /\ FetchedUpTo(20)
    /\ IntPages(50) \in pages_seen
    /\ IntPages(20) \in pages_seen

\* C9: when every fetch succeeds with a non-empty 'items' list and reports the
\* same 'pages' = P, 1 <= P <= 20, the walk requests exactly the pages
\* 0, 1, ..., P-1, in that order, and then stops.
C9_ExactlyPFetches ==
    \A P \in 1 .. 20 :
        pages_seen = {IntPages(P)} =>
            /\ FetchedUpTo(Len(fetched))
            /\ Len(fetched) <= P
            /\ EndedOnLastPage => FetchedUpTo(P)
            /\ (pc = "body" /\ HasItems /\ Len(fetched) = P) => ~ENABLED WalkNextPage

C9_Witness ==
    /\ EndedOnLastPage
    /\ pages_seen = {IntPages(3)}
    /\ FetchedUpTo(3)
    /\ page = 2

\* C10: when every fetch succeeds with a non-empty 'items' list and reports
\* 'pages' greater than 20, the walk requests exactly the pages 0..19 and
\* then stops; page 20 is never requested.
C10_HardCap ==
    (pages_seen # {} /\ \A v \in pages_seen : v.kind = "int" /\ v.val > 20) =>
        /\ FetchedUpTo(Len(fetched))
        /\ Len(fetched) <= 20
        /\ EndedOnLastPage => (FetchedUpTo(20) /\ page = 19)

C10_Witness ==
    /\ EndedOnLastPage
    /\ pages_seen = {IntPages(50)}
    /\ FetchedUpTo(20)
    /\ page = 19
    /\ Len(all_vacancies) > 0

\* the page just fetched decoded to a mapping whose 'items' list is empty
EmptyPage ==
    /\ pc \in {"body", "done"}
    /\ vacancies # None
    /\ vacancies.kind = "mapping"
    /\ vacancies.items # Absent
    /\ vacancies.items.kind = "list"
    /\ vacancies.items.val = <<>>

\* C11: a successful fetch of page k whose 'items' list is empty ends the
\* walk after exactly k+1 fetches (pages 0..k), and the result is what pages
\* 0..k-1 had accumulated; on page 0 that is no record after one fetch.
C11_EmptyPageStops ==
    /\ [](EmptyPage =>
            /\ FetchedUpTo(page + 1)
            /\ page = 0 => all_vacancies = <<>>
            /\ pc = "body" => ENABLED WalkEmptyItems)
    /\ [][(EmptyPage /\ pc = "body") =>
            (pc' = "done" /\ all_vacancies' = all_vacancies /\ fetched' = fetched)]_vars

C11_Witness ==
    /\ EmptyPage
    /\ pc = "done"
    /\ page = 2
    /\ FetchedUpTo(3)
    /\ Len(all_vacancies) >= 2

\* the request of the current page has ended without a usable response: a
\* status other than 200, no response after the retries, or an exception
FetchFailed ==
    /\ pc = "request"
    /\ \/ wpc = "raised"
       \/ wpc = "returned" /\ result = None
       \/ wpc = "returned" /\ result # None /\ result.status # 200

\* the fetch of the current page has reported "no data"
NoDataPage == pc \in {"body", "done"} /\ vacancies = None

\* C12: when the fetch of page k ends in a terminal failure (non-retryable
\* status, JSON decode failure, retries exhausted), fetch_all requests no
\* further page, does not raise, and returns the records of pages 0..k-1
\* unchanged.
C12_FailureKeepsPartial ==
    /\ [](FetchFailed => ENABLED ResponseRejected)
    /\ [][(FetchFailed /\ pc' # "request") => (pc' = "body" /\ vacancies' = None)]_vars
    /\ [](NoDataPage => (FetchedUpTo(page + 1) /\ (pc = "body" => ENABLED WalkNoData)))
    /\ [][(NoDataPage /\ pc = "body") =>
            (pc' = "done" /\ all_vacancies' = all_vacancies /\ fetched' = fetched)]_vars
    /\ [][(pc = "request" /\ pc' = "body" /\ vacancies' = None) =>
            (all_vacancies' = all_vacancies /\ fetched' = fetched /\ page' = page)]_vars

C12_Witness ==
    /\ NoDataPage
    /\ pc = "done"
    /\ page = 1
    /\ FetchedUpTo(2)
    /\ Len(all_vacancies) = 2

\* the salary predicate: a bound that is present and at least m
BoundAtLeast(x, m) == x # <<>> /\ x[1] >= m

SalaryPredicate(v, m) == BoundAtLeast(v.salary_from, m) \/ BoundAtLeast(v.salary_to, m)

\* C13: in every state of the walk, and so in its result, every record of the
\* accumulator has salary_from present and >= min_salary, or salary_to
\* present and >= min_salary.
C13_AccumulatorQualifies ==
    \A i \in 1 .. Len(all_vacancies) : SalaryPredicate(all_vacancies[i], min_salary)

\* a page whose second record has its only bound below min_salary
C13_Witness ==
    /\ EndedOnLastPage
    /\ min_salary = 2
    /\ vacancies.items.val =
           <<Vacancy("q", Salary(<<2>>, <<>>)), Vacancy("t", Salary(<<>>, <<1>>))>>
    /\ Len(all_vacancies) = 1
    /\ all_vacancies[1].title = "q"

\* the records of one page that satisfy the salary predicate, in API order
PageQualifying(items, m) ==
    SelectSeq(extract_vacancy_data(items), LAMBDA v : SalaryPredicate(v, m))

\* C14: the result is the concatenation, in increasing page index, of each
\* fetched page's qualifying records in API order: pages are requested in
\* order, and each page with items (the last one too) appends exactly its
\* qualifying records, none reordered, duplicated or missing.
C14_Original ==
    /\ [](FetchedUpTo(Len(fetched)))
    /\ [][(pc = "body" /\ HasItems) =>
            all_vacancies' =
                all_vacancies \o PageQualifying(vacancies.items.val, min_salary)]_vars

\* a raw object that can be normalized: a mapping whose 'salary' is a
\* mapping, null or missing
WellFormed(raw) == raw.kind = "mapping" /\ raw.salary.kind \in {"mapping", "absent"}

Normalized(raw) ==
    [kind |-> "VacancyData",
     title |-> raw.name,
     salary_from |-> IF raw.salary = Absent THEN <<>> ELSE raw.salary.from,
     salary_to |-> IF raw.salary = Absent THEN <<>> ELSE raw.salary.to]

\* the records of the well-formed objects of a page, in API order
NormalizedWellFormed(items) ==
    LET w == SelectSeq(items, WellFormed)
    IN  [i \in 1 .. Len(w) |-> Normalized(w[i])]

HasMalformed(items) == \E i \in 1 .. Len(items) : ~WellFormed(items[i])

\* C16: when a raw object of a page is malformed (not a mapping, or with a
\* 'salary' that is not a mapping), only that object is skipped: the other
\* objects of the page are normalized and filtered in their original order,
\* and the walk goes on to the termination check of that page.
C16_MalformedSkipped ==
    [][(pc = "body" /\ HasItems /\ HasMalformed(vacancies.items.val)) =>
        /\ all_vacancies' =
               all_vacancies \o
                   filter_by_salary(NormalizedWellFormed(vacancies.items.val), min_salary)
        /\ vacancies.pages.kind # "null" =>
               pc' = IF page >= PagesOf(vacancies) - 1 \/ page >= 19
                     THEN "done" ELSE "fetch"]_vars

\* a page of a malformed object followed by a well-formed, qualifying one
C16_Witness ==
    /\ EndedOnLastPage
    /\ vacancies.pages = IntPages(1)
    /\ vacancies.items.val =
           <<Vacancy("x", [kind |-> "scalar"]), Vacancy("q", Salary(<<2>>, <<>>))>>
    /\ all_vacancies = <<Normalized(Vacancy("q", Salary(<<2>>, <<>>)))>>

\* the wrapper's call for the current page has ended
RequestEnded == pc = "request" /\ wpc \in {"returned", "raised"}

\* what fetch_hh_vac may hand to the walk for a request that ended, as a
\* function of the final outcome alone: a 200 response decodes to some body of
\* the page or fails to decode, anything else is "no data"
HandedOver ==
    IF wpc = "returned" /\ result # None /\ result.status = 200
    THEN Bodies(page) \cup {None}
    ELSE {None}

\* C17: retryable failures that do not exhaust the retries are invisible to
\* the walk.  While a request is retried the walk's state does not change;
\* the wrapper gives up only after max_retries+1 failed attempts and never
\* hands over a retryable response; and what the walk receives, and does
\* next, depends on the final outcome only, not on the attempts before it.
C17_TransientInvisible ==
    /\ [][(pc = "request" /\ pc' = "request") =>
            UNCHANGED <<page, all_vacancies, min_salary, vacancies, fetched, pages_seen>>]_vars
    /\ [](RequestEnded =>
            /\ calls <= max_retries + 1
            /\ (wpc = "returned" /\ result = None) => calls = max_retries + 1
            /\ (wpc = "returned" /\ result # None) =>
                   (result.call = calls /\ result.status \notin retryable_status_codes)
            /\ (wpc = "returned" /\ result # None /\ result.status = 200) =>
                   (ENABLED JsonDecoded /\ ENABLED JsonDecodeError))
    /\ [][(pc = "request" /\ pc' # "request") =>
            /\ RequestEnded
            /\ pc' = "body"
            /\ vacancies' \in HandedOver
            /\ UNCHANGED <<page, all_vacancies, min_salary, fetched>>]_vars

\* page 1 is answered with 200 after three retryable failures
C17_Witness ==
    /\ RequestEnded
    /\ page = 1
    /\ result # None
    /\ result.status = 200
    /\ calls = max_retries + 1
    /\ Len(sleeps) = max_retries

\* C18: fetch_all never raises: whatever the fetch outcomes and whatever the
\* shape of a decoded body ('pages' null, 'items' not a sequence, a body that
\* is not a mapping), the walk ends by returning the accumulated records.
C18_Original == pc # "raised"

\* page 0 decoded to a mapping with a non-empty 'items' list and no 'pages' key
NoPagesKey ==
    /\ pc \in {"body", "done"}
    /\ page = 0
    /\ HasItems
    /\ vacancies.pages = Absent

\* C19: when the body of page 0 has a non-empty 'items' list and no 'pages'
\* key, the page count defaults to 0: fetch_all appends page 0's qualifying
\* records and stops after exactly one fetch; page 1 is never requested.
C19_Original ==
    /\ [](NoPagesKey => (fetched = <<0>> /\ (pc = "body" => ENABLED WalkLastPage)))
    /\ [][(NoPagesKey /\ pc = "body") =>
            /\ pc' = "done"
            /\ fetched' = <<0>>
            /\ all_vacancies' = PageQualifying(vacancies.items.val, min_salary)]_vars

\* C20: retry state does not carry over between pages.  Every page fetch
\* starts with attempt count 0 and delay = initial_delay; during a fetch the
\* attempt count is the number of failures of that page alone, so each page
\* gets the full max_retries+1 attempts, and the first backoff sleep of a
\* page is initial_delay whatever earlier pages consumed.
C20_FreshRetryState ==
    /\ [][(pc = "fetch" /\ pc' = "request") =>
            /\ retries' = 0
            /\ RatEq(delay', initial_delay)
            /\ calls' = 0
            /\ sleeps' = <<>>]_vars
    /\ [](pc = "request" =>
            /\ wpc = "loop" => (retries = calls /\ retries = Len(sleeps))
            /\ sleeps # <<>> => RatEq(sleeps[1], initial_delay)
            /\ (wpc = "loop" /\ calls <= max_retries) =>
                   (ENABLED RequestReturn /\ (ENABLED RequestRetry \/ ENABLED RequestExhaust))
            /\ (wpc = "returned" /\ result = None) => calls = max_retries + 1)

\* page 2 uses up all its attempts, its first sleep being initial_delay
C20_Witness ==
    /\ pc = "request"
    /\ page = 2
    /\ wpc = "returned"
    /\ result = None
    /\ calls = max_retries + 1
    /\ Len(sleeps) = max_retries
    /\ RatEq(sleeps[1], initial_delay)

----------------------------------------------------------------------------
(* Properties of filter_by_salary (checked under SpecFilter) *)

\* C15: for every record and every integer min_salary, thresholds <= 0 and
\* bounds equal to 0 included, filter_by_salary keeps the record exactly when
\* salary_from is present and >= min_salary or salary_to is present and
\* >= min_salary; a record with both bounds absent is never kept.
C15_Original ==
    pc = "filtered" =>
        filtered = SelectSeq(vacancies, LAMBDA v : SalaryPredicate(v, min_salary))

====
